---- MODULE Spec2Model ----
(***************************************************************************)
(* Model of the meta plugin protocol harness (src/src/lib.rs).             *)
(*                                                                         *)
(* One plugin binary is invoked by the host up to MaxRuns times.  Each     *)
(* invocation is one process running run_plugin(): the model follows it    *)
(* statement by statement (pc), recording what it writes to stdout and     *)
(* stderr, how often it reads stdin, how often it calls execute, and the   *)
(* exit code.                                                              *)
(*                                                                         *)
(* Text is a sequence of tokens.  Data strings are sequences of single     *)
(* characters; the literals of the format strings of the code are single   *)
(* tokens.  The bytes written are the concatenation of the tokens.         *)
(* Option<T> is a sequence of length 0 (None) or 1 (Some).                 *)
(* A HashMap is the sequence of its (key, value) pairs in the iteration    *)
(* order it has in the running process.                                    *)
(* Both output streams are assumed writable.                               *)
(***************************************************************************)
EXTENDS Integers, Sequences, FiniteSets, TLC

\* Number of invocations of the plugin binary in one host session.
MaxRuns == 2

\* Field width of the command column, "{:<20}".
PadWidth == 20

NL == "\n"
QUOTE == "\""
BACKSLASH == "\\"

None == <<>>

Some(x) == <<x>>

IsSome(o) == Len(o) = 1

Unwrap(o) == o[1]

\* ------------------------------------------------------------------------
\* Sequence helpers
\* ------------------------------------------------------------------------

RECURSIVE ConcatAll(_)
\* Concatenation of a sequence of texts.
ConcatAll(ss) == IF ss = <<>> THEN <<>> ELSE Head(ss) \o ConcatAll(Tail(ss))

\* Concatenation of a sequence of texts, the sequence evaluated once.
Concat(ss) == CHOOSE text \in {ConcatAll(s) : s \in {ss}} : TRUE

\* t occurs in s as a contiguous run of tokens.
Contains(s, t) ==
    \E i \in 0..(Len(s) - Len(t)) : SubSeq(s, i + 1, i + Len(t)) = t

\* s begins with t.
StartsWith(s, t) == Len(s) >= Len(t) /\ SubSeq(s, 1, Len(t)) = t

\* Number of positions of s holding token c.
Count(s, c) == Cardinality({i \in 1..Len(s) : s[i] = c})

\* All orderings of the sequence s.
Orders(s) ==
    {[i \in 1..Len(s) |-> s[p[i]]] :
        p \in {q \in [1..Len(s) -> 1..Len(s)] :
                 \A i, j \in 1..Len(s) : q[i] = q[j] => i = j}}

\* ------------------------------------------------------------------------
\* JSON values and serde_json's two writers
\*   <<"str", text>>  <<"bool", b>>  <<"num", n>>  <<"null">>
\*   (numbers occur in requests only, which the harness never writes)
\*   <<"arr", values>>
\*   <<"obj", <<field name, value>> pairs in written order>>   (a struct)
\*   <<"map", <<key text, value>> pairs in written order>>     (a HashMap)
\* ------------------------------------------------------------------------

JStr(s) == <<"str", s>>

JBool(b) == <<"bool", b>>

JNum(n) == <<"num", n>>

JNull == <<"null">>

JArr(vs) == <<"arr", vs>>

JObj(kvs) == <<"obj", kvs>>

JMap(kvs) == <<"map", kvs>>

\* One character of a JSON string as serde_json writes it.
EscapeChar(c) ==
    IF c = NL THEN "\\n"
    ELSE IF c = QUOTE THEN "\\\""
    ELSE IF c = BACKSLASH THEN "\\\\"
    ELSE c

\* A JSON string literal: quote, escaped characters, quote.
JsonString(s) == <<QUOTE>> \o [i \in 1..Len(s) |-> EscapeChar(s[i])] \o <<QUOTE>>

\* A field name of a derived struct, written as a JSON string.
JsonKey(k) == <<QUOTE, k, QUOTE>>

\* The key of a member: struct members carry a field name (a string of the
\* code), map members carry a data string.
MemberKey(tag, k) == IF tag = "obj" THEN JsonKey(k) ELSE JsonString(k)

RECURSIVE Compact(_)
\* serde_json::to_string: no whitespace between tokens.
Compact(v) ==
    CASE v[1] = "str" -> JsonString(v[2])
      [] v[1] = "bool" -> IF v[2] THEN <<"true">> ELSE <<"false">>
      [] v[1] = "null" -> <<"null">>
      [] v[1] = "arr" ->
           <<"[">> \o
           Concat([i \in 1..Len(v[2]) |->
                     (IF i > 1 THEN <<",">> ELSE <<>>) \o Compact(v[2][i])]) \o
           <<"]">>
      [] v[1] \in {"obj", "map"} ->
           <<"{">> \o
           Concat([i \in 1..Len(v[2]) |->
                     (IF i > 1 THEN <<",">> ELSE <<>>) \o
                     MemberKey(v[1], v[2][i][1]) \o <<":">> \o Compact(v[2][i][2])]) \o
           <<"}">>

\* Indentation of serde_json's PrettyFormatter: two spaces per level.
Indent(n) == [i \in 1..n |-> "  "]

RECURSIVE Pretty(_, _)
\* serde_json::to_string_pretty at nesting level n.
Pretty(v, n) ==
    CASE v[1] = "arr" /\ v[2] # <<>> ->
           <<"[">> \o
           Concat([i \in 1..Len(v[2]) |->
                     (IF i > 1 THEN <<",">> ELSE <<>>) \o <<NL>> \o Indent(n + 1) \o
                     Pretty(v[2][i], n + 1)]) \o
           <<NL>> \o Indent(n) \o <<"]">>
      [] v[1] \in {"obj", "map"} /\ v[2] # <<>> ->
           <<"{">> \o
           Concat([i \in 1..Len(v[2]) |->
                     (IF i > 1 THEN <<",">> ELSE <<>>) \o <<NL>> \o Indent(n + 1) \o
                     MemberKey(v[1], v[2][i][1]) \o <<": ">> \o Pretty(v[2][i][2], n + 1)]) \o
           <<NL>> \o Indent(n) \o <<"}">>
      [] OTHER -> Compact(v)

\* ------------------------------------------------------------------------
\* Protocol types and their derived Serialize
\* ------------------------------------------------------------------------

\* struct PluginHelp
PluginHelp(usage, commands, examples, note) ==
    [usage |-> usage, commands |-> commands, examples |-> examples, note |-> note]

\* struct PluginInfo
PluginInfo(name, version, commands, description, help) ==
    [name |-> name, version |-> version, commands |-> commands,
     description |-> description, help |-> help]

\* struct PlannedCommand
PlannedCommand(dir, cmd, env) == [dir |-> dir, cmd |-> cmd, env |-> env]

\* struct ExecutionPlan
ExecutionPlan(commands, parallel) == [commands |-> commands, parallel |-> parallel]

\* struct PlanResponse
PlanResponse(plan) == [plan |-> plan]

\* enum CommandResult; the fields a variant does not carry are left empty.
Plan(commands, parallel) ==
    [tag |-> "Plan", commands |-> commands, parallel |-> parallel, text |-> None]

Message(msg) ==
    [tag |-> "Message", commands |-> <<>>, parallel |-> None, text |-> Some(msg)]

Error(e) ==
    [tag |-> "Error", commands |-> <<>>, parallel |-> None, text |-> Some(e)]

ShowHelp(maybe_error) ==
    [tag |-> "ShowHelp", commands |-> <<>>, parallel |-> None, text |-> maybe_error]

\* Vec<String>
SerStrings(ss) == JArr([i \in 1..Len(ss) |-> JStr(ss[i])])

\* Option<String> without skip_serializing_if: None is written as null.
SerOptString(o) == IF IsSome(o) THEN JStr(Unwrap(o)) ELSE JNull

\* HashMap<String, String>, members in iteration order.
SerStringMap(m) == JMap([i \in 1..Len(m) |-> <<m[i][1], JStr(m[i][2])>>])

SerPluginHelp(h) ==
    JObj(<< <<"usage", JStr(h.usage)>>,
            <<"commands", SerStringMap(h.commands)>>,
            <<"examples", SerStrings(h.examples)>>,
            <<"note", SerOptString(h.note)>> >>)

SerPluginInfo(info) ==
    JObj(<< <<"name", JStr(info.name)>>,
            <<"version", JStr(info.version)>>,
            <<"commands", SerStrings(info.commands)>>,
            <<"description", SerOptString(info.description)>>,
            <<"help", IF IsSome(info.help) THEN SerPluginHelp(Unwrap(info.help))
                      ELSE JNull>> >>)

\* SerPlannedCommand without skip_serializing_if: a None env is written as null.
SerPlannedCommand_NoSkip(c) ==
    JObj(<< <<"dir", JStr(c.dir)>>, <<"cmd", JStr(c.cmd)>>,
            <<"env", IF IsSome(c.env) THEN SerStringMap(Unwrap(c.env)) ELSE JNull>> >>)

\* env is skipped when None.
SerPlannedCommand(c) ==
    JObj(<< <<"dir", JStr(c.dir)>>, <<"cmd", JStr(c.cmd)>> >> \o
         (IF IsSome(c.env) THEN << <<"env", SerStringMap(Unwrap(c.env))>> >> ELSE <<>>))

\* SerExecutionPlan with parallel as a plain bool: None is written as false.
SerExecutionPlan_DefaultFalse(p) ==
    JObj(<< <<"commands", JArr([i \in 1..Len(p.commands) |->
                                   SerPlannedCommand(p.commands[i])])>>,
            <<"parallel", JBool(IF IsSome(p.parallel) THEN Unwrap(p.parallel)
                                ELSE FALSE)>> >>)

\* parallel is skipped when None.
SerExecutionPlan(p) ==
    JObj(<< <<"commands", JArr([i \in 1..Len(p.commands) |->
                                   SerPlannedCommand(p.commands[i])])>> >> \o
         (IF IsSome(p.parallel) THEN << <<"parallel", JBool(Unwrap(p.parallel))>> >>
          ELSE <<>>))

SerPlanResponse(r) == JObj(<< <<"plan", SerExecutionPlan(r.plan)>> >>)

\* ------------------------------------------------------------------------
\* Helper functions of the crate: what each writes
\* ------------------------------------------------------------------------

\* println!("{}", s) and eprintln!("{}", s): the text and a newline.
Line(s) == s \o <<NL>>

\* output_execution_plan: the text handed to println!.
output_execution_plan(commands, parallel) ==
    Line(Compact(SerPlanResponse(PlanResponse(ExecutionPlan(commands, parallel)))))

\* "{:<20}": the text, then spaces up to the field width.
PadLeft(s) == s \o [i \in 1..(IF Len(s) < PadWidth THEN PadWidth - Len(s) ELSE 0) |-> " "]

\* write_plugin_help with the description line dropped from the summary.
write_plugin_help_NoDescription(info) ==
    IF IsSome(info.help)
    THEN LET help == Unwrap(info.help) IN
         Line(help.usage) \o
         Line(<<>>) \o
         (IF help.commands # <<>>
          THEN Line(<<"Commands:">>) \o
               Concat([i \in 1..Len(help.commands) |->
                         Line(<<"  ">> \o PadLeft(help.commands[i][1]) \o <<" ">> \o
                              help.commands[i][2])]) \o
               Line(<<>>)
          ELSE <<>>) \o
         (IF help.examples # <<>>
          THEN Line(<<"Examples:">>) \o
               Concat([i \in 1..Len(help.examples) |->
                         Line(<<"  ">> \o help.examples[i])]) \o
               Line(<<>>)
          ELSE <<>>) \o
         (IF IsSome(help.note) THEN Line(Unwrap(help.note)) ELSE <<>>)
    ELSE Line(<<"meta ">> \o info.name \o <<" v">> \o info.version)

\* write_plugin_help with the examples written in reverse order.
write_plugin_help_ExamplesReversed(info) ==
    IF IsSome(info.help)
    THEN LET help == Unwrap(info.help) IN
         Line(help.usage) \o
         Line(<<>>) \o
         (IF help.commands # <<>>
          THEN Line(<<"Commands:">>) \o
               Concat([i \in 1..Len(help.commands) |->
                         Line(<<"  ">> \o PadLeft(help.commands[i][1]) \o <<" ">> \o
                              help.commands[i][2])]) \o
               Line(<<>>)
          ELSE <<>>) \o
         (IF help.examples # <<>>
          THEN Line(<<"Examples:">>) \o
               Concat([i \in 1..Len(help.examples) |->
                         Line(<<"  ">> \o help.examples[Len(help.examples) + 1 - i])]) \o
               Line(<<>>)
          ELSE <<>>) \o
         (IF IsSome(help.note) THEN Line(Unwrap(help.note)) ELSE <<>>)
    ELSE Line(<<"meta ">> \o info.name \o <<" v">> \o info.version) \o
         (IF IsSome(info.description) THEN Line(Unwrap(info.description)) ELSE <<>>)

\* write_plugin_help: the text written to the writer.
write_plugin_help(info) ==
    IF IsSome(info.help)
    THEN LET help == Unwrap(info.help) IN
         Line(help.usage) \o
         Line(<<>>) \o
         (IF help.commands # <<>>
          THEN Line(<<"Commands:">>) \o
               Concat([i \in 1..Len(help.commands) |->
                         Line(<<"  ">> \o PadLeft(help.commands[i][1]) \o <<" ">> \o
                              help.commands[i][2])]) \o
               Line(<<>>)
          ELSE <<>>) \o
         (IF help.examples # <<>>
          THEN Line(<<"Examples:">>) \o
               Concat([i \in 1..Len(help.examples) |->
                         Line(<<"  ">> \o help.examples[i])]) \o
               Line(<<>>)
          ELSE <<>>) \o
         (IF IsSome(help.note) THEN Line(Unwrap(help.note)) ELSE <<>>)
    ELSE Line(<<"meta ">> \o info.name \o <<" v">> \o info.version) \o
         (IF IsSome(info.description) THEN Line(Unwrap(info.description)) ELSE <<>>)

\* ------------------------------------------------------------------------
\* Reading a PluginRequest: serde's derived Deserialize over a JSON document
\*   Results are <<"Ok", value>> or <<"Err", message>>.
\* ------------------------------------------------------------------------

Ok(v) == <<"Ok", v>>

Err(e) == <<"Err", e>>

IsOk(r) == r[1] = "Ok"

\* struct PluginRequestOptions
PluginRequestOptions(json_output, verbose, parallel, dry_run, silent, recursive, depth, include_filters, exclude_filters) ==
    [json_output |-> json_output, verbose |-> verbose, parallel |-> parallel,
     dry_run |-> dry_run, silent |-> silent, recursive |-> recursive,
     depth |-> depth, include_filters |-> include_filters,
     exclude_filters |-> exclude_filters]

\* Default with depth as a plain usize: zero in place of None.
DefaultOptions_DepthZero ==
    PluginRequestOptions(FALSE, FALSE, FALSE, FALSE, FALSE, FALSE, Some(0), None, None)

\* #[derive(Default)] for PluginRequestOptions
DefaultOptions ==
    PluginRequestOptions(FALSE, FALSE, FALSE, FALSE, FALSE, FALSE, None, None, None)

\* struct PluginRequest
PluginRequest(command, args, projects, cwd, options) ==
    [command |-> command, args |-> args, projects |-> projects, cwd |-> cwd,
     options |-> options]

\* The values a document gives for a field name, in document order.
FieldValues(pairs, key) ==
    LET hits == SelectSeq(pairs, LAMBDA kv : kv[1] = key)
    IN  [i \in 1..Len(hits) |-> hits[i][2]]

HasField(pairs, key) == FieldValues(pairs, key) # <<>>

\* String
DeString(v) == IF v[1] = "str" THEN Ok(v[2]) ELSE Err("invalid type, expected a string")

\* bool
DeBool(v) == IF v[1] = "bool" THEN Ok(v[2]) ELSE Err("invalid type, expected a boolean")

\* Vec<String>
DeStrings(v) ==
    IF v[1] = "arr" /\ \A i \in 1..Len(v[2]) : v[2][i][1] = "str"
    THEN Ok([i \in 1..Len(v[2]) |-> v[2][i][2]])
    ELSE Err("invalid type, expected a sequence of strings")

\* Option<usize>: null is None.
DeOptUsize(v) ==
    IF v[1] = "null" THEN Ok(None)
    ELSE IF v[1] = "num" THEN Ok(Some(v[2]))
    ELSE Err("invalid type, expected usize")

\* Option<Vec<String>>: null is None.
DeOptStrings(v) ==
    IF v[1] = "null" THEN Ok(None)
    ELSE IF IsOk(DeStrings(v)) THEN Ok(Some(DeStrings(v)[2]))
    ELSE DeStrings(v)

\* The declared type of a field of PluginRequestOptions; unknown members of
\* a document are ignored.
OptionsFieldType(key) ==
    IF key \in {"json_output", "verbose", "parallel", "dry_run", "silent", "recursive"}
    THEN "bool"
    ELSE IF key = "depth" THEN "Option<usize>"
    ELSE IF key \in {"include_filters", "exclude_filters"} THEN "Option<Vec<String>>"
    ELSE "ignored"

\* The declared type of a field of PluginRequest.
RequestFieldType(key) ==
    IF key \in {"command", "cwd"} THEN "String"
    ELSE IF key \in {"args", "projects"} THEN "Vec<String>"
    ELSE IF key = "options" THEN "PluginRequestOptions"
    ELSE "ignored"

\* The declared type of field key of the struct.
FieldType(struct, key) ==
    IF struct = "PluginRequest" THEN RequestFieldType(key) ELSE OptionsFieldType(key)

RECURSIVE DeAs(_, _)

\* What the visitor of a struct reports for member i of the document: a
\* repeated known field, or a value of the wrong type; <<>> if neither.
MemberError(struct, pairs, i) ==
    IF FieldType(struct, pairs[i][1]) # "ignored"
       /\ \E j \in 1..(i - 1) : pairs[j][1] = pairs[i][1]
    THEN <<"duplicate field">>
    ELSE IF ~IsOk(DeAs(FieldType(struct, pairs[i][1]), pairs[i][2]))
    THEN <<DeAs(FieldType(struct, pairs[i][1]), pairs[i][2])[2]>>
    ELSE <<>>

\* The first error among the members, in document order; <<>> if none.
FirstError(struct, pairs) ==
    LET bad == {i \in 1..Len(pairs) : MemberError(struct, pairs, i) # <<>>}
    IN  IF bad = {} THEN <<>>
        ELSE MemberError(struct, pairs, CHOOSE i \in bad : \A j \in bad : i <= j)

\* The value of a present field, or the #[serde(default)] value.
FieldOr(struct, pairs, key, default) ==
    IF HasField(pairs, key)
    THEN DeAs(FieldType(struct, key), FieldValues(pairs, key)[1])[2]
    ELSE default

\* PluginRequestOptions: every field is #[serde(default)].
DeOptions(v) ==
    IF v[1] # "obj" THEN Err("invalid type, expected struct PluginRequestOptions")
    ELSE IF FirstError("PluginRequestOptions", v[2]) # <<>>
    THEN Err(FirstError("PluginRequestOptions", v[2])[1])
    ELSE Ok(PluginRequestOptions(
               FieldOr("PluginRequestOptions", v[2], "json_output", FALSE),
               FieldOr("PluginRequestOptions", v[2], "verbose", FALSE),
               FieldOr("PluginRequestOptions", v[2], "parallel", FALSE),
               FieldOr("PluginRequestOptions", v[2], "dry_run", FALSE),
               FieldOr("PluginRequestOptions", v[2], "silent", FALSE),
               FieldOr("PluginRequestOptions", v[2], "recursive", FALSE),
               FieldOr("PluginRequestOptions", v[2], "depth", None),
               FieldOr("PluginRequestOptions", v[2], "include_filters", None),
               FieldOr("PluginRequestOptions", v[2], "exclude_filters", None)))

\* A value read as the declared type.
DeAs(type, v) ==
    CASE type = "String" -> DeString(v)
      [] type = "bool" -> DeBool(v)
      [] type = "Vec<String>" -> DeStrings(v)
      [] type = "Option<usize>" -> DeOptUsize(v)
      [] type = "Option<Vec<String>>" -> DeOptStrings(v)
      [] type = "PluginRequestOptions" -> DeOptions(v)
      [] type = "ignored" -> Ok(None)

\* PluginRequest from a JSON value: command is required, the other fields are
\* #[serde(default)].
DePluginRequest(v) ==
    IF v[1] # "obj" THEN Err("invalid type, expected struct PluginRequest")
    ELSE IF FirstError("PluginRequest", v[2]) # <<>>
    THEN Err(FirstError("PluginRequest", v[2])[1])
    ELSE IF ~HasField(v[2], "command") THEN Err("missing field command")
    ELSE Ok(PluginRequest(
               FieldOr("PluginRequest", v[2], "command", <<>>),
               FieldOr("PluginRequest", v[2], "args", <<>>),
               FieldOr("PluginRequest", v[2], "projects", <<>>),
               FieldOr("PluginRequest", v[2], "cwd", <<>>),
               FieldOr("PluginRequest", v[2], "options", DefaultOptions)))

\* Standard input is <<"invalid_utf8">> (read_to_string fails), or
\* <<"text", doc>> with doc <<"malformed">> (text that is not JSON) or a JSON
\* value.

\* std::io::stdin().read_to_string(&mut input)
read_to_string(input) ==
    IF input[1] = "text" THEN Ok(input[2]) ELSE Err("stream did not contain valid UTF-8")

\* serde_json::from_str::<PluginRequest>(&input)
from_str(doc) ==
    IF doc[1] = "malformed" THEN Err("expected value") ELSE DePluginRequest(doc)

\* ------------------------------------------------------------------------
\* Inputs: plugin definitions, process arguments, standard input, and the
\* results the plugin's execute function may return
\* ------------------------------------------------------------------------

Git == <<"g", "i", "t">>

V10 == <<"1", ".", "0">>

HelpTwo ==
    PluginHelp(<<"m", " ", "g">>,
               << <<<<"p", "l">>, <<"f">>>>, <<<<"s", "t">>, <<"s">>>> >>,
               << <<"e", "1">>, <<"e", "2">> >>,
               Some(<<"n">>))

HelpOne ==
    PluginHelp(<<"m", " ", "g">>, << <<<<"p", "l">>, <<"f", "+", "m">>>> >>, <<>>, None)

HelpEmpty == PluginHelp(<<"m", " ", "g">>, <<>>, <<>>, None)

\* The plugin definitions the binary may be built with; help.commands is
\* listed in insertion order.
Plugins ==
    { PluginInfo(Git, V10, << <<"p", "l">> >>, None, None),
      PluginInfo(Git, V10, <<>>, Some(<<"a", QUOTE, "b">>), None),
      PluginInfo(Git, V10, << <<"p", "l">>, <<"s", "t">> >>, Some(<<"d">>), Some(HelpTwo)),
      PluginInfo(Git, V10, << <<"p", "l">> >>, None, Some(HelpOne)),
      PluginInfo(Git, V10, <<>>, None, Some(HelpEmpty)) }

\* The PluginInfo values one process may hold for a plugin definition: the
\* iteration order of the HashMap help.commands depends on the hash keys the
\* process drew (std RandomState).
InfoInProcess(p) ==
    IF IsSome(p.help)
    THEN {[p EXCEPT !.help = Some([Unwrap(p.help) EXCEPT !.commands = o])] :
             o \in Orders(Unwrap(p.help).commands)}
    ELSE {p}

Bin == "meta-git"

\* std::env::args(): the binary name and what the caller appended.
ArgvInputs ==
    { <<Bin>>,
      <<Bin, "--meta-plugin-info">>,
      <<Bin, "--meta-plugin-info", "extra">>,
      <<Bin, "--meta-plugin-exec">>,
      <<Bin, "--help">>,
      <<Bin, "-h">>,
      <<Bin, "--bogus">>,
      <<Bin, "status">> }

Status == <<"s", "t">>

\* Contents of standard input.
StdinInputs ==
    { <<"invalid_utf8">>,
      <<"text", <<"malformed">>>>,
      <<"text", JStr(<<"n", "o">>)>>,
      <<"text", JObj(<<>>)>>,
      <<"text", JObj(<< <<"args", JArr(<<JStr(<<"x">>)>>)>> >>)>>,
      <<"text", JObj(<< <<"command", JNum(5)>> >>)>>,
      <<"text", JObj(<< <<"command", JStr(<<>>)>> >>)>>,
      <<"text", JObj(<< <<"command", JStr(Status)>> >>)>>,
      <<"text", JObj(<< <<"command", JStr(Status)>>,
                        <<"args", JArr(<<>>)>>,
                        <<"projects", JArr(<<JStr(<<"a">>), JStr(<<"b">>)>>)>>,
                        <<"cwd", JStr(<<"/", "r">>)>>,
                        <<"options", JObj(<<>>)>> >>)>>,
      <<"text", JObj(<< <<"command", JStr(Status)>>,
                        <<"extra", JBool(TRUE)>>,
                        <<"options", JObj(<< <<"verbose", JBool(TRUE)>>,
                                             <<"depth", JNum(2)>>,
                                             <<"include_filters", JNull>> >>)>> >>)>>,
      <<"text", JObj(<< <<"command", JStr(Status)>>,
                        <<"options", JObj(<< <<"verbose", JNum(1)>> >>)>> >>)>>,
      <<"text", JObj(<< <<"command", JStr(Status)>>,
                        <<"command", JStr(Status)>> >>)>> }

CmdA == PlannedCommand(<<"a">>, <<"g", " ", "p">>, None)

CmdB == PlannedCommand(<<"b", NL>>, <<QUOTE, "x">>,
                       Some(<< <<<<"K">>, <<"v">>>>, <<<<"L">>, <<"w">>>> >>))

CmdC == PlannedCommand(<<"c">>, <<"l", "s">>, Some(<<>>))

CmdD == PlannedCommand(<<"/", "d">>, <<"m", "k">>,
                       Some(<< <<<<"L", QUOTE>>, <<BACKSLASH, NL>>>>, <<<<"K">>, <<>>>> >>))

\* Values the execute function of a plugin may return.
CommandResults ==
    { Plan(<<>>, None),
      Plan(<<>>, Some(FALSE)),
      Plan(<<CmdA>>, Some(TRUE)),
      Plan(<<CmdB, CmdA>>, None),
      Plan(<<CmdA, CmdC, CmdB>>, Some(FALSE)),
      Plan(<<CmdD>>, None),
      Message(<<>>),
      Message(<<"c", "l", "e", "a", "n">>),
      Message(<<"a", NL, "b">>),
      Error(<<>>),
      Error(<<"b", "o", "o", "m">>),
      ShowHelp(None),
      ShowHelp(Some(<<>>)),
      ShowHelp(Some(<<"m", "i", "s", "s">>)) }

\* ------------------------------------------------------------------------
\* State
\* ------------------------------------------------------------------------

VARIABLES
    plugin,         \* the PluginDefinition.info the binary was built with
    run,            \* index of the current invocation of the binary
    info,           \* plugin.info as held by the current process
    args,           \* std::env::args() of the current process
    stdin,          \* what the host put on standard input
    pc,             \* position of the process in run_plugin
    input,          \* Option: the text read_to_string put in the buffer
    failure,        \* Option: the error read_request_from_stdin returned
    request,        \* Option: the PluginRequest handed to execute
    result,         \* Option: the CommandResult execute returned
    stdout,         \* text written to standard output
    stderr,         \* text written to standard error
    stdinReads,     \* number of reads of standard input
    executeCalls,   \* number of calls of plugin.execute
    exitCode,       \* Option: the exit status of the process
    prevDiscovery   \* Option: stdout of the latest finished discovery invocation

vars == <<plugin, run, info, args, stdin, pc, input, failure, request, result,
          stdout, stderr, stdinReads, executeCalls, exitCode, prevDiscovery>>

\* A freshly spawned process: nothing read, written or called yet.
Spawned(i, a, s) ==
    /\ info' = i
    /\ args' = a
    /\ stdin' = s
    /\ pc' = "start"
    /\ input' = None
    /\ failure' = None
    /\ request' = None
    /\ result' = None
    /\ stdout' = <<>>
    /\ stderr' = <<>>
    /\ stdinReads' = 0
    /\ executeCalls' = 0
    /\ exitCode' = None

Init ==
    /\ plugin \in Plugins
    /\ run = 1
    /\ info \in InfoInProcess(plugin)
    /\ args \in ArgvInputs
    /\ stdin \in StdinInputs
    /\ pc = "start"
    /\ input = None
    /\ failure = None
    /\ request = None
    /\ result = None
    /\ stdout = <<>>
    /\ stderr = <<>>
    /\ stdinReads = 0
    /\ executeCalls = 0
    /\ exitCode = None
    /\ prevDiscovery = None

\* The parts of the state no step of run_plugin changes.
ProcessFrame == UNCHANGED <<plugin, run, info, args, stdin, prevDiscovery>>

\* ------------------------------------------------------------------------
\* run_plugin, one action per statement
\* ------------------------------------------------------------------------

\* if args.len() < 2 { eprintln!(...); ... }
CheckArgs ==
    /\ pc = "start"
    /\ IF Len(args) < 2
       THEN /\ stderr' = stderr \o
                   Line(<<"This binary is a meta plugin. Use via: meta ">> \o info.name)
            /\ pc' = "exit1"
       ELSE /\ stderr' = stderr
            /\ pc' = "dispatch"
    /\ UNCHANGED <<input, failure, request, result, stdout, stdinReads, executeCalls,
                   exitCode>>
    /\ ProcessFrame

\* EmitInfo with the document printed to both streams.
EmitInfo_BothStreams ==
    /\ pc = "dispatch"
    /\ args[2] = "--meta-plugin-info"
    /\ stdout' = stdout \o Line(Pretty(SerPluginInfo(info), 0))
    /\ stderr' = stderr \o Line(Pretty(SerPluginInfo(info), 0))
    /\ pc' = "return"
    /\ UNCHANGED <<input, failure, request, result, stdinReads, executeCalls, exitCode>>
    /\ ProcessFrame

\* "--meta-plugin-info" => println!("{}", to_string_pretty(&plugin.info))
EmitInfo ==
    /\ pc = "dispatch"
    /\ args[2] = "--meta-plugin-info"
    /\ stdout' = stdout \o Line(Pretty(SerPluginInfo(info), 0))
    /\ pc' = "return"
    /\ UNCHANGED <<input, failure, request, result, stderr, stdinReads, executeCalls,
                   exitCode>>
    /\ ProcessFrame

\* "--meta-plugin-exec" => read_request_from_stdin(): read_to_string(&mut input)?
ReadStdin ==
    /\ pc = "dispatch"
    /\ args[2] = "--meta-plugin-exec"
    /\ stdinReads' = stdinReads + 1
    /\ IF IsOk(read_to_string(stdin))
       THEN /\ input' = Some(read_to_string(stdin)[2])
            /\ failure' = failure
            /\ pc' = "parse"
       ELSE /\ input' = input
            /\ failure' = Some(read_to_string(stdin)[2])
            /\ pc' = "parse_failed"
    /\ UNCHANGED <<request, result, stdout, stderr, executeCalls, exitCode>>
    /\ ProcessFrame

\* ParseRequest reading standard input a second time (from_reader over stdin
\* after read_to_string): the second read is at end of input.
ParseRequest_Reread ==
    /\ pc = "parse"
    /\ stdinReads' = stdinReads + 1
    /\ failure' = Some("EOF while parsing a value")
    /\ pc' = "parse_failed"
    /\ UNCHANGED <<input, request, result, stdout, stderr, executeCalls, exitCode>>
    /\ ProcessFrame

\* ParseRequest with the error of from_str dropped: a default request is
\* handed on (unwrap_or_default in place of the ? operator).
ParseRequest_Lenient ==
    /\ pc = "parse"
    /\ request' = IF IsOk(from_str(Unwrap(input)))
                  THEN Some(from_str(Unwrap(input))[2])
                  ELSE Some(PluginRequest(<<>>, <<>>, <<>>, <<>>, DefaultOptions))
    /\ pc' = "execute"
    /\ UNCHANGED <<input, failure, result, stdout, stderr, stdinReads, executeCalls,
                   exitCode>>
    /\ ProcessFrame

\* read_request_from_stdin(): serde_json::from_str(&input)?
ParseRequest ==
    /\ pc = "parse"
    /\ IF IsOk(from_str(Unwrap(input)))
       THEN /\ request' = Some(from_str(Unwrap(input))[2])
            /\ failure' = failure
            /\ pc' = "execute"
       ELSE /\ request' = request
            /\ failure' = Some(from_str(Unwrap(input))[2])
            /\ pc' = "parse_failed"
    /\ UNCHANGED <<input, result, stdout, stderr, stdinReads, executeCalls, exitCode>>
    /\ ProcessFrame

\* ReportParseFailure with println! in place of eprintln!.
ReportParseFailure_Stdout ==
    /\ pc = "parse_failed"
    /\ stdout' = stdout \o Line(<<"Failed to parse plugin request: ", Unwrap(failure)>>)
    /\ pc' = "exit1"
    /\ UNCHANGED <<input, failure, request, result, stderr, stdinReads, executeCalls,
                   exitCode>>
    /\ ProcessFrame

\* ReportParseFailure reusing the prefix of the business error.
ReportParseFailure_ErrorPrefix ==
    /\ pc = "parse_failed"
    /\ stderr' = stderr \o Line(<<"Error: ", Unwrap(failure)>>)
    /\ pc' = "exit1"
    /\ UNCHANGED <<input, failure, request, result, stdout, stdinReads, executeCalls,
                   exitCode>>
    /\ ProcessFrame

\* ReportParseFailure retrying the parse of the text already read in place of
\* reporting the failure and exiting.
ReportParseFailure_Retry ==
    /\ pc = "parse_failed"
    /\ IF IsSome(input)
       THEN /\ stderr' = stderr
            /\ failure' = None
            /\ pc' = "parse"
       ELSE /\ stderr' = stderr \o Line(<<"Failed to parse plugin request: ", Unwrap(failure)>>)
            /\ failure' = failure
            /\ pc' = "exit1"
    /\ UNCHANGED <<input, request, result, stdout, stdinReads, executeCalls, exitCode>>
    /\ ProcessFrame

\* Err(e) => eprintln!("Failed to parse plugin request: {e}")
ReportParseFailure ==
    /\ pc = "parse_failed"
    /\ stderr' = stderr \o Line(<<"Failed to parse plugin request: ", Unwrap(failure)>>)
    /\ pc' = "exit1"
    /\ UNCHANGED <<input, failure, request, result, stdout, stdinReads, executeCalls,
                   exitCode>>
    /\ ProcessFrame

\* (plugin.execute)(request): the plugin returns any CommandResult.
Execute ==
    /\ pc = "execute"
    /\ \E r \in CommandResults : result' = Some(r)
    /\ executeCalls' = executeCalls + 1
    /\ pc' = "match_result"
    /\ UNCHANGED <<input, failure, request, stdout, stderr, stdinReads, exitCode>>
    /\ ProcessFrame

\* CommandResult::Plan(commands, parallel) => output_execution_plan(...)
EmitPlan ==
    /\ pc = "match_result"
    /\ Unwrap(result).tag = "Plan"
    /\ stdout' = stdout \o
           output_execution_plan(Unwrap(result).commands, Unwrap(result).parallel)
    /\ pc' = "return"
    /\ UNCHANGED <<input, failure, request, result, stderr, stdinReads, executeCalls,
                   exitCode>>
    /\ ProcessFrame

\* EmitMessage without the is_empty test.
EmitMessage_Always ==
    /\ pc = "match_result"
    /\ Unwrap(result).tag = "Message"
    /\ stdout' = stdout \o Line(Unwrap(Unwrap(result).text))
    /\ pc' = "return"
    /\ UNCHANGED <<input, failure, request, result, stderr, stdinReads, executeCalls,
                   exitCode>>
    /\ ProcessFrame

\* CommandResult::Message(msg) => if !msg.is_empty() { println!("{}", msg) }
EmitMessage ==
    /\ pc = "match_result"
    /\ Unwrap(result).tag = "Message"
    /\ stdout' = IF Unwrap(Unwrap(result).text) # <<>>
                 THEN stdout \o Line(Unwrap(Unwrap(result).text))
                 ELSE stdout
    /\ pc' = "return"
    /\ UNCHANGED <<input, failure, request, result, stderr, stdinReads, executeCalls,
                   exitCode>>
    /\ ProcessFrame

\* EmitError without the exit: the error is reported and run_plugin returns.
EmitError_NoExit ==
    /\ pc = "match_result"
    /\ Unwrap(result).tag = "Error"
    /\ stderr' = stderr \o Line(<<"Error: ">> \o Unwrap(Unwrap(result).text))
    /\ pc' = "return"
    /\ UNCHANGED <<input, failure, request, result, stdout, stdinReads, executeCalls,
                   exitCode>>
    /\ ProcessFrame

\* EmitError writing with println! in place of eprintln!.
EmitError_Stdout ==
    /\ pc = "match_result"
    /\ Unwrap(result).tag = "Error"
    /\ stdout' = stdout \o Line(<<"Error: ">> \o Unwrap(Unwrap(result).text))
    /\ pc' = "exit1"
    /\ UNCHANGED <<input, failure, request, result, stderr, stdinReads, executeCalls,
                   exitCode>>
    /\ ProcessFrame

\* CommandResult::Error(e) => eprintln!("Error: {}", e)
EmitError ==
    /\ pc = "match_result"
    /\ Unwrap(result).tag = "Error"
    /\ stderr' = stderr \o Line(<<"Error: ">> \o Unwrap(Unwrap(result).text))
    /\ pc' = "exit1"
    /\ UNCHANGED <<input, failure, request, result, stdout, stdinReads, executeCalls,
                   exitCode>>
    /\ ProcessFrame

\* CommandResult::ShowHelp(Some(err)) => eprintln!("error: {}", err)
ShowHelpError ==
    /\ pc = "match_result"
    /\ Unwrap(result).tag = "ShowHelp"
    /\ IsSome(Unwrap(result).text)
    /\ stderr' = stderr \o Line(<<"error: ">> \o Unwrap(Unwrap(result).text))
    /\ pc' = "help_blank"
    /\ UNCHANGED <<input, failure, request, result, stdout, stdinReads, executeCalls,
                   exitCode>>
    /\ ProcessFrame

\* ShowHelpBlank leaving at once: the help is never written.
ShowHelpBlank_ExitEarly ==
    /\ pc = "help_blank"
    /\ stderr' = stderr \o Line(<<>>)
    /\ pc' = "exit1"
    /\ UNCHANGED <<input, failure, request, result, stdout, stdinReads, executeCalls,
                   exitCode>>
    /\ ProcessFrame

\* eprintln!()
ShowHelpBlank ==
    /\ pc = "help_blank"
    /\ stderr' = stderr \o Line(<<>>)
    /\ pc' = "help_stderr"
    /\ UNCHANGED <<input, failure, request, result, stdout, stdinReads, executeCalls,
                   exitCode>>
    /\ ProcessFrame

\* eprint_plugin_help(&plugin.info)
eprint_plugin_help ==
    /\ pc = "help_stderr"
    /\ stderr' = stderr \o write_plugin_help(info)
    /\ pc' = "exit1"
    /\ UNCHANGED <<input, failure, request, result, stdout, stdinReads, executeCalls,
                   exitCode>>
    /\ ProcessFrame

\* ShowHelpPlain calling eprint_plugin_help in place of print_plugin_help.
ShowHelpPlain_Stderr ==
    /\ pc = "match_result"
    /\ Unwrap(result).tag = "ShowHelp"
    /\ ~IsSome(Unwrap(result).text)
    /\ stderr' = stderr \o write_plugin_help(info)
    /\ pc' = "return"
    /\ UNCHANGED <<input, failure, request, result, stdout, stdinReads, executeCalls,
                   exitCode>>
    /\ ProcessFrame

\* CommandResult::ShowHelp(None) => print_plugin_help(&plugin.info)
ShowHelpPlain ==
    /\ pc = "match_result"
    /\ Unwrap(result).tag = "ShowHelp"
    /\ ~IsSome(Unwrap(result).text)
    /\ stdout' = stdout \o write_plugin_help(info)
    /\ pc' = "return"
    /\ UNCHANGED <<input, failure, request, result, stderr, stdinReads, executeCalls,
                   exitCode>>
    /\ ProcessFrame

\* "--help" | "-h" => print_plugin_help(&plugin.info)
print_plugin_help ==
    /\ pc = "dispatch"
    /\ args[2] \in {"--help", "-h"}
    /\ stdout' = stdout \o write_plugin_help(info)
    /\ pc' = "return"
    /\ UNCHANGED <<input, failure, request, result, stderr, stdinReads, executeCalls,
                   exitCode>>
    /\ ProcessFrame

\* _ => eprintln!("Unknown flag: {}. This binary is a meta plugin.", args[1])
UnknownFlag ==
    /\ pc = "dispatch"
    /\ args[2] \notin {"--meta-plugin-info", "--meta-plugin-exec", "--help", "-h"}
    /\ stderr' = stderr \o
           Line(<<"Unknown flag: ", args[2], ". This binary is a meta plugin.">>)
    /\ pc' = "unknown_hint"
    /\ UNCHANGED <<input, failure, request, result, stdout, stdinReads, executeCalls,
                   exitCode>>
    /\ ProcessFrame

\* UsageHint naming the binary argument in place of the plugin.
UsageHint_NoName ==
    /\ pc = "unknown_hint"
    /\ stderr' = stderr \o Line(<<"Use via: meta ", args[2]>>)
    /\ pc' = "exit1"
    /\ UNCHANGED <<input, failure, request, result, stdout, stdinReads, executeCalls,
                   exitCode>>
    /\ ProcessFrame

\* eprintln!("Use via: meta {}", plugin.info.name)
UsageHint ==
    /\ pc = "unknown_hint"
    /\ stderr' = stderr \o Line(<<"Use via: meta ">> \o info.name)
    /\ pc' = "exit1"
    /\ UNCHANGED <<input, failure, request, result, stdout, stdinReads, executeCalls,
                   exitCode>>
    /\ ProcessFrame

\* Exit1 with the status of a usage error, std::process::exit(2).
Exit1_Status2 ==
    /\ pc = "exit1"
    /\ exitCode' = Some(2)
    /\ pc' = "exited"
    /\ UNCHANGED <<input, failure, request, result, stdout, stderr, stdinReads,
                   executeCalls>>
    /\ ProcessFrame

\* std::process::exit(1)
Exit1 ==
    /\ pc = "exit1"
    /\ exitCode' = Some(1)
    /\ pc' = "exited"
    /\ UNCHANGED <<input, failure, request, result, stdout, stderr, stdinReads,
                   executeCalls>>
    /\ ProcessFrame

\* run_plugin returns to main, which returns: the process ends with status 0.
Return ==
    /\ pc = "return"
    /\ exitCode' = Some(0)
    /\ pc' = "exited"
    /\ UNCHANGED <<input, failure, request, result, stdout, stderr, stdinReads,
                   executeCalls>>
    /\ ProcessFrame

\* This invocation was a discovery invocation.
IsDiscovery == Len(args) >= 2 /\ args[2] = "--meta-plugin-info"

\* The host invokes the same binary again, in a new process.
Respawn ==
    /\ pc = "exited"
    /\ run < MaxRuns
    /\ run' = run + 1
    /\ prevDiscovery' = IF IsDiscovery THEN Some(stdout) ELSE prevDiscovery
    /\ \E i \in InfoInProcess(plugin), a \in ArgvInputs, s \in StdinInputs :
           Spawned(i, a, s)
    /\ UNCHANGED plugin

Next ==
    \/ CheckArgs
    \/ EmitInfo
    \/ ReadStdin
    \/ ParseRequest
    \/ ReportParseFailure
    \/ Execute
    \/ EmitPlan
    \/ EmitMessage
    \/ EmitError
    \/ ShowHelpError
    \/ ShowHelpBlank
    \/ eprint_plugin_help
    \/ ShowHelpPlain
    \/ print_plugin_help
    \/ UnknownFlag
    \/ UsageHint
    \/ Exit1
    \/ Return
    \/ Respawn

\* A step of the running process: every statement of run_plugin, and not the
\* host starting another process.
ProcessStep ==
    \/ CheckArgs
    \/ EmitInfo
    \/ ReadStdin
    \/ ParseRequest
    \/ ReportParseFailure
    \/ Execute
    \/ EmitPlan
    \/ EmitMessage
    \/ EmitError
    \/ ShowHelpError
    \/ ShowHelpBlank
    \/ eprint_plugin_help
    \/ ShowHelpPlain
    \/ print_plugin_help
    \/ UnknownFlag
    \/ UsageHint
    \/ Exit1
    \/ Return

Spec == Init /\ [][Next]_vars

\* One invocation of the binary, where a process that can take a step takes
\* one: the read of standard input reaches its end and execute returns.
FairSpec == Init /\ [][ProcessStep]_vars /\ WF_vars(ProcessStep)

\* ------------------------------------------------------------------------
\* Reading written text back: a JSON reader over the tokens of a stream
\* ------------------------------------------------------------------------

Whitespace == {NL, " ", "  "}

\* The character an escaped token of a string literal stands for.
UnescapeChar(t) ==
    IF t = "\\n" THEN NL
    ELSE IF t = "\\\"" THEN QUOTE
    ELSE IF t = "\\\\" THEN BACKSLASH
    ELSE t

RECURSIVE SkipWs(_, _)
\* The first position from i on that holds no whitespace.
SkipWs(s, i) == IF i <= Len(s) /\ s[i] \in Whitespace THEN SkipWs(s, i + 1) ELSE i

\* The position of the quote closing the string literal opened at i.
ClosingQuote(s, i) == CHOOSE j \in (i + 1)..Len(s) :
                          s[j] = QUOTE /\ \A k \in (i + 1)..(j - 1) : s[k] # QUOTE

\* The string literal opened at i: <<its text, the position after it>>.
ReadString(s, i) ==
    <<[k \in 1..(ClosingQuote(s, i) - i - 1) |-> UnescapeChar(s[i + k])],
      ClosingQuote(s, i) + 1>>

RECURSIVE ReadValue(_, _)
RECURSIVE ReadMembers(_, _, _)
RECURSIVE ReadElements(_, _, _)

\* The value starting at or after i: <<the value, the position after it>>.
\* Objects come back as <<"obj", <<key text, value>> pairs>>.
ReadValue(s, i) ==
    LET j == SkipWs(s, i) IN
    CASE s[j] = QUOTE -> <<JStr(ReadString(s, j)[1]), ReadString(s, j)[2]>>
      [] s[j] = "{" -> ReadMembers(s, SkipWs(s, j + 1), <<>>)
      [] s[j] = "[" -> ReadElements(s, SkipWs(s, j + 1), <<>>)
      [] s[j] = "true" -> <<JBool(TRUE), j + 1>>
      [] s[j] = "false" -> <<JBool(FALSE), j + 1>>
      [] s[j] = "null" -> <<JNull, j + 1>>

ReadMembers(s, i, acc) ==
    IF s[i] = "}" THEN <<JObj(acc), i + 1>>
    ELSE IF s[i] = "," THEN ReadMembers(s, SkipWs(s, i + 1), acc)
    ELSE LET key == ReadString(s, i)
             colon == SkipWs(s, key[2])
             val == ReadValue(s, colon + 1)
         IN  ReadMembers(s, SkipWs(s, val[2]), Append(acc, <<key[1], val[1]>>))

ReadElements(s, i, acc) ==
    IF s[i] = "]" THEN <<JArr(acc), i + 1>>
    ELSE IF s[i] = "," THEN ReadElements(s, SkipWs(s, i + 1), acc)
    ELSE LET val == ReadValue(s, i)
         IN  ReadElements(s, SkipWs(s, val[2]), Append(acc, val[1]))

\* The text holds exactly one JSON document, then only whitespace.
IsOneDocument(s) == s # <<>> /\ SkipWs(s, ReadValue(s, 1)[2]) = Len(s) + 1

\* The document a stream holds.
Document(s) == ReadValue(s, 1)[1]

\* Position i of s lies outside the string literals: an even number of
\* quotes precedes it.
IsOutsideStrings(s, i) ==
    s[i] # QUOTE /\ Cardinality({k \in 1..(i - 1) : s[k] = QUOTE}) % 2 = 0

\* Exactly one line: one newline, at the end.
IsOneLine(s) == s # <<>> /\ Count(s, NL) = 1 /\ s[Len(s)] = NL

\* ------------------------------------------------------------------------
\* Properties
\* ------------------------------------------------------------------------

Exited == pc = "exited"

ExecMode == Len(args) >= 2 /\ args[2] = "--meta-plugin-exec"

\* Standard input can be read as text and the text is a PluginRequest.
StdinParses == IsOk(read_to_string(stdin)) /\ IsOk(from_str(read_to_string(stdin)[2]))

\* execute returned the variant tag.
Returned(tag) == IsSome(result) /\ Unwrap(result).tag = tag

\* The string a Message, Error or ShowHelp(Some(_)) carries.
ResultText == Unwrap(Unwrap(result).text)

\* s is an initial part of t.
IsPrefix(s, t) == Len(s) <= Len(t) /\ SubSeq(t, 1, Len(s)) = s

\* C1: once execute has returned, the exit code is fixed by the variant: Plan
\* and Message end with 0, Error and ShowHelp(Some(_)) with 1, ShowHelp(None)
\* with 0.
C1_ExitCodeByResult ==
    (IsSome(exitCode) /\ IsSome(result)) =>
        exitCode = Some(IF Unwrap(result).tag \in {"Plan", "Message"} THEN 0
                        ELSE IF Unwrap(result).tag = "Error" THEN 1
                        ELSE IF IsSome(Unwrap(result).text) THEN 1
                        ELSE 0)

W1_ErrorExited == Exited /\ Returned("Error") /\ exitCode = Some(1)

\* Standard input that is unreadable, is not JSON, or is an object without
\* the required field.
C2_Unparseable ==
    \/ stdin[1] = "invalid_utf8"
    \/ stdin[2][1] = "malformed"
    \/ stdin[2][1] = "obj" /\ ~HasField(stdin[2][2], "command")

\* C2: in execution mode, when stdin cannot be read or does not parse, the
\* process writes one parse-failure line to stderr, nothing to stdout, and
\* exits 1.
C2_ParseFailure ==
    (ExecMode /\ (C2_Unparseable \/ ~StdinParses)) =>
        /\ stdout = <<>>
        /\ Exited => /\ StartsWith(stderr, <<"Failed to parse plugin request: ">>)
                     /\ IsOneLine(stderr)
                     /\ exitCode = Some(1)

W2_MissingCommandExited ==
    /\ Exited
    /\ ExecMode
    /\ stdin[1] = "text"
    /\ stdin[2][1] = "obj"
    /\ ~HasField(stdin[2][2], "command")
    /\ exitCode = Some(1)

\* C3: execute is called exactly once in an invocation in execution mode
\* whose stdin parses, and never in any other invocation.
C3_ExecuteOnce ==
    /\ executeCalls <= 1
    /\ executeCalls = 1 => ExecMode /\ StdinParses
    /\ (Exited /\ ExecMode /\ StdinParses) => executeCalls = 1

W3_ExecutedOnce == Exited /\ ExecMode /\ StdinParses /\ executeCalls = 1

\* The keys of the members of an object read back, in order.
Keys(doc) == [i \in 1..Len(doc[2]) |-> doc[2][i][1]]

\* C4: a discovery invocation writes exactly one JSON document, the
\* PluginInfo of the plugin, to stdout, nothing to stderr, never reads stdin,
\* and exits 0, whatever stdin holds.
C4_Discovery ==
    IsDiscovery =>
        /\ stderr = <<>>
        /\ stdinReads = 0
        /\ Exited =>
             /\ IsOneDocument(stdout)
             /\ Keys(Document(stdout)) =
                    << <<"name">>, <<"version">>, <<"commands">>, <<"description">>,
                       <<"help">> >>
             /\ Document(stdout)[2][1][2] = JStr(plugin.name)
             /\ Document(stdout)[2][2][2] = JStr(plugin.version)
             /\ Document(stdout)[2][3][2] =
                    JArr([i \in 1..Len(plugin.commands) |-> JStr(plugin.commands[i])])
             /\ exitCode = Some(0)

W4_DiscoveryUnreadableStdin ==
    Exited /\ IsDiscovery /\ stdin = <<"invalid_utf8">> /\ exitCode = Some(0)

\* C5: two successive discovery invocations of the same plugin write
\* byte-identical JSON to stdout.
C5_DiscoveryIdempotent ==
    (Exited /\ IsDiscovery /\ IsSome(prevDiscovery)) => stdout = Unwrap(prevDiscovery)

KnownFlags == {"--meta-plugin-info", "--meta-plugin-exec", "--help", "-h"}

\* The first argument is missing or is no flag of the protocol.
NoKnownFlag == Len(args) < 2 \/ args[2] \notin KnownFlags

\* C6: with the first argument missing or unrecognized, the process writes a
\* usage hint containing the name of the plugin to stderr, nothing to stdout,
\* does not read stdin, and exits 1.
C6_UsageHint ==
    NoKnownFlag =>
        /\ stdout = <<>>
        /\ stdinReads = 0
        /\ Exited => /\ Contains(stderr, plugin.name)
                     /\ exitCode = Some(1)

W6_NoArgumentExited == Exited /\ Len(args) < 2 /\ exitCode = Some(1)

\* The document a PlannedCommand is expected to be read back as.
C7_Command(c) ==
    JObj(<< <<<<"dir">>, JStr(c.dir)>>, <<<<"cmd">>, JStr(c.cmd)>> >> \o
         (IF c.env = None THEN <<>>
          ELSE << <<<<"env">>,
                    JObj([i \in 1..Len(c.env[1]) |->
                            <<c.env[1][i][1], JStr(c.env[1][i][2])>>])>> >>))

\* The document a Plan(commands, parallel) is expected to be read back as.
C7_Response(commands, parallel) ==
    JObj(<< <<<<"plan">>,
              JObj(<< <<<<"commands">>,
                        JArr([i \in 1..Len(commands) |-> C7_Command(commands[i])])>> >> \o
                   (IF parallel = None THEN <<>>
                    ELSE << <<<<"parallel">>, JBool(parallel[1])>> >>))>> >>)

\* C7: for Plan(commands, parallel_override) stdout receives exactly one
\* PlanResponse as one line of compact JSON, commands in order, parallel
\* absent when None, env absent when None; nothing goes to stderr.
C7_PlanOutput ==
    Returned("Plan") =>
        /\ stderr = <<>>
        /\ Exited =>
             /\ IsOneLine(stdout)
             /\ IsOneDocument(stdout)
             /\ \A i \in 1..Len(stdout) :
                    IsOutsideStrings(stdout, i) => stdout[i] \notin {" ", "  ", ": "}
             /\ Document(stdout) =
                    C7_Response(Unwrap(result).commands, Unwrap(result).parallel)

W7_EmptyPlanExited ==
    /\ Exited
    /\ Returned("Plan")
    /\ Unwrap(result).commands = <<>>
    /\ Unwrap(result).parallel = None
    /\ stdout # <<>>

\* C8: for Message(text) stdout receives text and one newline if text is
\* non-empty and nothing if it is empty; nothing goes to stderr; exit 0.
C8_MessageOutput ==
    Returned("Message") =>
        /\ stderr = <<>>
        /\ Exited => /\ stdout = IF ResultText = <<>> THEN <<>>
                                 ELSE ResultText \o <<NL>>
                     /\ exitCode = Some(0)

W8_EmptyMessageExited ==
    Exited /\ Returned("Message") /\ ResultText = <<>> /\ stdout = <<>>

\* C9: for Error(text) stderr receives the line "Error: " + text, stdout
\* nothing, exit 1; the line written on a parse failure does not start with
\* "Error: ".
C9_ErrorOutput ==
    /\ Returned("Error") =>
         /\ stdout = <<>>
         /\ Exited => /\ stderr = <<"Error: ">> \o ResultText \o <<NL>>
                      /\ exitCode = Some(1)
    /\ IsSome(failure) => ~StartsWith(stderr, <<"Error: ">>)

W9_ErrorReported ==
    Exited /\ Returned("Error") /\ ResultText # <<>> /\ StartsWith(stderr, <<"Error: ">>)

\* What ShowHelp(Some(text)) is to put on stderr.
C10_Expected == <<"error: ">> \o ResultText \o <<NL, NL>> \o write_plugin_help(info)

\* C10: for ShowHelp(Some(text)) stderr receives the line "error: " + text, a
\* blank line, then the rendered help, in this order; stdout receives
\* nothing; the process exits 1, and only after the help has been written.
C10_ShowHelpError ==
    (Returned("ShowHelp") /\ IsSome(Unwrap(result).text)) =>
        /\ stdout = <<>>
        /\ IsPrefix(stderr, C10_Expected)
        /\ pc = "exit1" => stderr = C10_Expected
        /\ IsSome(exitCode) => stderr = C10_Expected /\ exitCode = Some(1)

W10_HelpAfterError ==
    /\ Exited
    /\ Returned("ShowHelp")
    /\ IsSome(Unwrap(result).text)
    /\ IsSome(info.help)
    /\ Len(Unwrap(info.help).commands) = 1
    /\ Contains(stderr, <<"Commands:">>)
    /\ exitCode = Some(1)

\* Help was asked for by flag.
HelpFlag == Len(args) >= 2 /\ args[2] \in {"--help", "-h"}

\* Help was asked for without an error: by flag, or by ShowHelp(None).
PlainHelp == HelpFlag \/ (Returned("ShowHelp") /\ Unwrap(result).text = None)

\* C11: help requested without an error, by --help / -h or by
\* ShowHelp(None), is rendered to stdout only, and the process exits 0.
C11_PlainHelp ==
    PlainHelp =>
        /\ stderr = <<>>
        /\ Exited => /\ stdout = write_plugin_help(info)
                     /\ exitCode = Some(0)

W11_ShowHelpNoneExited ==
    Exited /\ Returned("ShowHelp") /\ Unwrap(result).text = None /\ stdout # <<>>

\* C12: every PluginRequest handed to execute has a command that is present
\* and non-empty.
C12_CommandNonEmpty ==
    executeCalls >= 1 => IsSome(request) /\ Unwrap(request).command # <<>>

\* ------------------------------------------------------------------------
\* The derived Deserialize of the response types, over a document read back
\* (object keys are texts)
\* ------------------------------------------------------------------------

\* The text of a field name as the reader returns it.
KeyText(name) == <<name>>

\* HashMap<String, String>
DeStringMap(v) ==
    IF v[1] = "obj" /\ \A i \in 1..Len(v[2]) : v[2][i][2][1] = "str"
    THEN Ok([i \in 1..Len(v[2]) |-> <<v[2][i][1], v[2][i][2][2]>>])
    ELSE Err("invalid type, expected a map of strings")

\* Option<HashMap<String, String>>, #[serde(default)]: absent or null is None.
DeOptStringMap(vs) ==
    IF vs = <<>> \/ vs[1][1] = "null" THEN Ok(None)
    ELSE IF IsOk(DeStringMap(vs[1])) THEN Ok(Some(DeStringMap(vs[1])[2]))
    ELSE DeStringMap(vs[1])

\* Option<bool>, #[serde(default)]: absent or null is None.
DeOptBool(vs) ==
    IF vs = <<>> \/ vs[1][1] = "null" THEN Ok(None)
    ELSE IF vs[1][1] = "bool" THEN Ok(Some(vs[1][2]))
    ELSE Err("invalid type, expected a boolean")

\* PlannedCommand: dir and cmd are required.
DePlannedCommand(v) ==
    IF v[1] # "obj" THEN Err("invalid type, expected struct PlannedCommand")
    ELSE IF ~HasField(v[2], KeyText("dir")) THEN Err("missing field dir")
    ELSE IF ~HasField(v[2], KeyText("cmd")) THEN Err("missing field cmd")
    ELSE IF ~IsOk(DeString(FieldValues(v[2], KeyText("dir"))[1]))
    THEN DeString(FieldValues(v[2], KeyText("dir"))[1])
    ELSE IF ~IsOk(DeString(FieldValues(v[2], KeyText("cmd"))[1]))
    THEN DeString(FieldValues(v[2], KeyText("cmd"))[1])
    ELSE IF ~IsOk(DeOptStringMap(FieldValues(v[2], KeyText("env"))))
    THEN DeOptStringMap(FieldValues(v[2], KeyText("env")))
    ELSE Ok(PlannedCommand(DeString(FieldValues(v[2], KeyText("dir"))[1])[2],
                           DeString(FieldValues(v[2], KeyText("cmd"))[1])[2],
                           DeOptStringMap(FieldValues(v[2], KeyText("env")))[2]))

\* ExecutionPlan: commands is required.
DeExecutionPlan(v) ==
    IF v[1] # "obj" THEN Err("invalid type, expected struct ExecutionPlan")
    ELSE IF ~HasField(v[2], KeyText("commands")) THEN Err("missing field commands")
    ELSE LET cs == FieldValues(v[2], KeyText("commands"))[1] IN
         IF cs[1] # "arr" THEN Err("invalid type, expected a sequence")
         ELSE IF \E i \in 1..Len(cs[2]) : ~IsOk(DePlannedCommand(cs[2][i]))
         THEN Err("invalid command")
         ELSE IF ~IsOk(DeOptBool(FieldValues(v[2], KeyText("parallel"))))
         THEN DeOptBool(FieldValues(v[2], KeyText("parallel")))
         ELSE Ok(ExecutionPlan([i \in 1..Len(cs[2]) |-> DePlannedCommand(cs[2][i])[2]],
                               DeOptBool(FieldValues(v[2], KeyText("parallel")))[2]))

\* PlanResponse: plan is required.
DePlanResponse(v) ==
    IF v[1] # "obj" THEN Err("invalid type, expected struct PlanResponse")
    ELSE IF ~HasField(v[2], KeyText("plan")) THEN Err("missing field plan")
    ELSE IF ~IsOk(DeExecutionPlan(FieldValues(v[2], KeyText("plan"))[1]))
    THEN DeExecutionPlan(FieldValues(v[2], KeyText("plan"))[1])
    ELSE Ok(PlanResponse(DeExecutionPlan(FieldValues(v[2], KeyText("plan"))[1])[2]))

\* Two HashMaps hold the same entries, whatever their iteration orders.
SameMap(a, b) ==
    /\ Len(a) = Len(b)
    /\ {a[i] : i \in 1..Len(a)} = {b[i] : i \in 1..Len(b)}

\* Two PlannedCommands are equal field for field.
SameCommand(c, d) ==
    /\ c.dir = d.dir
    /\ c.cmd = d.cmd
    /\ IsSome(c.env) = IsSome(d.env)
    /\ IsSome(c.env) => SameMap(Unwrap(c.env), Unwrap(d.env))

\* Two ExecutionPlans are equal field for field.
SamePlan(p, q) ==
    /\ Len(p.commands) = Len(q.commands)
    /\ \A i \in 1..Len(p.commands) : SameCommand(p.commands[i], q.commands[i])
    /\ p.parallel = q.parallel

\* The PlanResponse a host parses from what the process wrote to stdout.
C13_ParsedBack == DePlanResponse(Document(stdout))

\* C13: serializing a PlanResponse and parsing the text back yields an
\* ExecutionPlan equal field for field: same commands in the same order, env
\* preserved per key with None staying None, parallel None staying None.
C13_PlanRoundTrip ==
    (Exited /\ Returned("Plan")) =>
        /\ IsOneDocument(stdout)
        /\ IsOk(C13_ParsedBack)
        /\ SamePlan(C13_ParsedBack[2].plan,
                    ExecutionPlan(Unwrap(result).commands, Unwrap(result).parallel))

W13_RoundTripNoParallel ==
    /\ Exited
    /\ Returned("Plan")
    /\ Unwrap(result).parallel = None
    /\ \E i \in 1..Len(Unwrap(result).commands) :
           /\ IsSome(Unwrap(result).commands[i].env)
           /\ Len(Unwrap(Unwrap(result).commands[i].env)) = 2
    /\ IsOk(C13_ParsedBack)
    /\ C13_ParsedBack[2].plan.parallel = None

\* ------------------------------------------------------------------------
\* Request payloads with every choice of omitted optional fields, and the
\* specification that parses them
\* ------------------------------------------------------------------------

GivenArgs == << <<"x">>, <<"y">> >>

GivenProjects == << <<"a">> >>

GivenCwd == <<"/", "r">>

GivenInclude == << <<"i">> >>

\* The members of a fully populated options object, none at its default.
FullOptions ==
    << <<"json_output", JBool(TRUE)>>,
       <<"verbose", JBool(TRUE)>>,
       <<"parallel", JBool(TRUE)>>,
       <<"dry_run", JBool(TRUE)>>,
       <<"silent", JBool(TRUE)>>,
       <<"recursive", JBool(TRUE)>>,
       <<"depth", JNum(2)>>,
       <<"include_filters", SerStrings(GivenInclude)>>,
       <<"exclude_filters", JArr(<<>>)>> >>

OptionNames == {FullOptions[i][1] : i \in 1..Len(FullOptions)}

\* The members of a fully populated request whose options hold the fields
\* in opts.
FullRequest(opts) ==
    << <<"command", JStr(Status)>>,
       <<"args", SerStrings(GivenArgs)>>,
       <<"projects", SerStrings(GivenProjects)>>,
       <<"cwd", JStr(GivenCwd)>>,
       <<"options", JObj(SelectSeq(FullOptions, LAMBDA kv : kv[1] \in opts))>> >>

\* The request document that keeps the fields in top and, inside options,
\* the fields in opts.
Payload(top, opts) == JObj(SelectSeq(FullRequest(opts), LAMBDA kv : kv[1] \in top))

\* Every payload that carries command and omits any subset of the optional
\* fields, and the payloads without options that omit command.
RequestPayloads ==
    {Payload(top \cup {"command", "options"}, opts) :
        top \in SUBSET {"args", "projects", "cwd"}, opts \in SUBSET OptionNames}
    \cup {Payload(top \cup {"command"}, {}) : top \in SUBSET {"args", "projects", "cwd"}}
    \cup {Payload(top, {}) : top \in SUBSET {"args", "projects", "cwd"}}

\* One invocation in execution mode on a request payload.
InitRequest ==
    /\ plugin = PluginInfo(Git, V10, <<>>, None, None)
    /\ run = 1
    /\ info = plugin
    /\ args = <<Bin, "--meta-plugin-exec">>
    /\ stdin \in {<<"text", d>> : d \in RequestPayloads}
    /\ pc = "start"
    /\ input = None
    /\ failure = None
    /\ request = None
    /\ result = None
    /\ stdout = <<>>
    /\ stderr = <<>>
    /\ stdinReads = 0
    /\ executeCalls = 0
    /\ exitCode = None
    /\ prevDiscovery = None

\* The steps of run_plugin up to the call of execute.
NextRequest ==
    \/ CheckArgs
    \/ ReadStdin
    \/ ParseRequest
    \/ ReportParseFailure
    \/ Exit1

SpecRequest == InitRequest /\ [][NextRequest]_vars

\* The members of the document on stdin.
C14_Doc == stdin[2][2]

\* The members of the options object of the document; none if it is omitted.
C14_Opts ==
    IF HasField(C14_Doc, "options") THEN FieldValues(C14_Doc, "options")[1][2] ELSE <<>>

\* C14: a payload that carries command and omits any subset of the optional
\* fields parses, each omitted field takes its default (empty list, empty
\* string, false, absent) and each present field keeps its value.
C14_Defaults ==
    /\ (HasField(C14_Doc, "command") /\ pc \notin {"start", "dispatch", "parse"}) =>
           IsSome(request) /\ failure = None /\ pc = "execute"
    /\ IsSome(request) =>
         LET req == Unwrap(request) IN
         /\ req.command = Status
         /\ req.args = IF HasField(C14_Doc, "args") THEN GivenArgs ELSE <<>>
         /\ req.projects = IF HasField(C14_Doc, "projects") THEN GivenProjects ELSE <<>>
         /\ req.cwd = IF HasField(C14_Doc, "cwd") THEN GivenCwd ELSE <<>>
         /\ req.options.json_output = HasField(C14_Opts, "json_output")
         /\ req.options.verbose = HasField(C14_Opts, "verbose")
         /\ req.options.parallel = HasField(C14_Opts, "parallel")
         /\ req.options.dry_run = HasField(C14_Opts, "dry_run")
         /\ req.options.silent = HasField(C14_Opts, "silent")
         /\ req.options.recursive = HasField(C14_Opts, "recursive")
         /\ req.options.depth = IF HasField(C14_Opts, "depth") THEN Some(2) ELSE None
         /\ req.options.include_filters =
                IF HasField(C14_Opts, "include_filters") THEN Some(GivenInclude) ELSE None
         /\ req.options.exclude_filters =
                IF HasField(C14_Opts, "exclude_filters") THEN Some(<<>>) ELSE None

W14_OnlyCommandParsed ==
    /\ pc = "execute"
    /\ Len(C14_Doc) = 1
    /\ IsSome(request)
    /\ Unwrap(request).options = DefaultOptions
    /\ Unwrap(request).projects = <<>>

\* The process has finished and stdout holds one rendering of the help.
HelpOnStdout == Exited /\ PlainHelp

\* The description line of the summary, if there is a description.
C15_DescriptionLine ==
    IF IsSome(info.description) THEN Unwrap(info.description) \o <<NL>> ELSE <<>>

\* C15 as stated: without help, the first line is exactly
\* "<name> v<version>" with nothing before the name, then the description
\* line if and only if there is a description, and nothing else.
C15_SummaryAsClaimed ==
    (HelpOnStdout /\ info.help = None) =>
        stdout = info.name \o <<" v">> \o info.version \o <<NL>> \o C15_DescriptionLine

\* C15 amended: without help, the first line is exactly
\* "meta <name> v<version>", then the description line if and only if there
\* is a description, and nothing else.
C15_Summary ==
    (HelpOnStdout /\ info.help = None) =>
        stdout = <<"meta ">> \o info.name \o <<" v">> \o info.version \o <<NL>> \o
                 C15_DescriptionLine

W15_SummaryWithDescription ==
    /\ HelpOnStdout
    /\ info.help = None
    /\ IsSome(info.description)
    /\ Count(stdout, NL) = 2

\* The lines of a text, each followed by a newline.
C16_Join(lines) == Concat([i \in 1..Len(lines) |-> lines[i] \o <<NL>>])

\* One line of the Commands block.
C16_CommandLine(kv) == <<"  ">> \o PadLeft(kv[1]) \o <<" ">> \o kv[2]

\* The Commands block: heading and one line per pair.
C16_CommandsBlock(help) ==
    << <<"Commands:">> >> \o
    [i \in 1..Len(help.commands) |-> C16_CommandLine(help.commands[i])]

\* The Examples block: heading and one indented line per example.
C16_ExamplesBlock(help) ==
    << <<"Examples:">> >> \o
    [i \in 1..Len(help.examples) |-> <<"  ">> \o help.examples[i]]

\* The note line, if there is a note.
C16_NoteLines(help) == IF IsSome(help.note) THEN <<Unwrap(help.note)>> ELSE <<>>

\* C16 as stated: with help, for every help value: usage line, blank line,
\* Commands block, blank line, Examples block, blank line, then the note if
\* and only if present.
C16_HelpAsClaimed ==
    (HelpOnStdout /\ IsSome(info.help)) =>
        LET help == Unwrap(info.help) IN
        stdout = C16_Join(<<help.usage, <<>> >> \o
                          C16_CommandsBlock(help) \o << <<>> >> \o
                          C16_ExamplesBlock(help) \o << <<>> >> \o
                          C16_NoteLines(help))

\* C16 amended: with help: usage line, blank line; the Commands block and a
\* blank line only if the mapping is non-empty; the Examples block and a
\* blank line only if the list is non-empty; then the note if and only if
\* present.
C16_Help ==
    (HelpOnStdout /\ IsSome(info.help)) =>
        LET help == Unwrap(info.help) IN
        stdout = C16_Join(<<help.usage, <<>> >> \o
                          (IF help.commands = <<>> THEN <<>>
                           ELSE C16_CommandsBlock(help) \o << <<>> >>) \o
                          (IF help.examples = <<>> THEN <<>>
                           ELSE C16_ExamplesBlock(help) \o << <<>> >>) \o
                          C16_NoteLines(help))

W16_FullHelpRendered ==
    /\ HelpOnStdout
    /\ IsSome(info.help)
    /\ Len(Unwrap(info.help).commands) = 2
    /\ Len(Unwrap(info.help).examples) = 2
    /\ Contains(stdout, <<"Commands:">>)
    /\ Contains(stdout, <<"Examples:">>)

\* What has happened so far in this process is in the order read, parse,
\* execute, write, exit.
C17_Order ==
    /\ stdinReads <= 1
    /\ executeCalls <= 1
    /\ IsSome(request) =>
           /\ stdinReads = 1
           /\ IsOk(read_to_string(stdin))
           /\ input = Some(read_to_string(stdin)[2])
    /\ executeCalls = 1 =>
           /\ IsSome(request)
           /\ from_str(Unwrap(input)) = Ok(Unwrap(request))
    /\ IsSome(result) => executeCalls = 1
    /\ (ExecMode /\ failure = None /\ (stdout # <<>> \/ stderr # <<>>)) => IsSome(result)
    /\ IsSome(exitCode) => Exited

\* A step of one process: reading needs nothing parsed yet, parsing needs the
\* input read, execute needs the request parsed, and a write needs the
\* process not to have exited.
C17_Step ==
    run' = run =>
        /\ stdinReads' # stdinReads => (input = None /\ request = None /\ result = None)
        /\ request' # request => (stdinReads = 1 /\ IsSome(input) /\ executeCalls = 0)
        /\ executeCalls' # executeCalls => (IsSome(request) /\ result = None)
        /\ (stdout' # stdout \/ stderr' # stderr) => (exitCode = None /\ exitCode' = None)

\* C17: in exec mode, each at most once and in this order: standard input is
\* read to its end before parsing, parsing completes before execute is
\* called, every write that depends on the result happens after execute
\* returned and before the exit; standard input is never read twice.
C17_ExecOrder == []C17_Order /\ [][C17_Step]_vars

W17_WroteAfterExecute ==
    /\ Exited
    /\ ExecMode
    /\ stdinReads = 1
    /\ executeCalls = 1
    /\ Returned("Message")
    /\ stdout # <<>>

\* C18: for every argument vector, every content of standard input and every
\* CommandResult, a process that ends does so with status 0 or 1, never
\* another status.
C18_ExitStatus ==
    /\ Exited => IsSome(exitCode)
    /\ IsSome(exitCode) => Unwrap(exitCode) \in {0, 1}

W18_UnknownFlagExited ==
    /\ Exited
    /\ NoKnownFlag
    /\ exitCode = Some(1)
    /\ ~ExecMode

\* C19: an invocation never writes to both streams; with status 1 there is
\* at least one line on stderr and nothing on stdout; with status 0 there is
\* nothing on stderr.
C19_Streams ==
    /\ ~(stdout # <<>> /\ stderr # <<>>)
    /\ exitCode = Some(1) => (Count(stderr, NL) >= 1 /\ stdout = <<>>)
    /\ exitCode = Some(0) => stderr = <<>>

W19_ErrorOnStderrOnly ==
    /\ Exited
    /\ Returned("Error")
    /\ exitCode = Some(1)
    /\ Count(stderr, NL) = 1
    /\ stdout = <<>>

\* C20: every invocation eventually exits, given that the read of standard
\* input reaches its end and execute returns; outside exec mode standard
\* input is never read and execute is never called; nothing is retried.
C20_Terminates ==
    /\ [](~ExecMode => (stdinReads = 0 /\ executeCalls = 0))
    /\ (~Exited ~> Exited)

W20_ParseFailureExited ==
    /\ Exited
    /\ ExecMode
    /\ IsSome(input)
    /\ IsSome(failure)
    /\ stdinReads = 1

====
